---- MODULE Spec2Model ----
(***************************************************************************)
(* Model of the PhD-genealogy analysis of generate_html.py: the graph      *)
(* builder, the chain finder, the descendant counter, the family-tree      *)
(* builder and the report assembler of analyze_data.                       *)
(* The name tables and the supervisor splitter of fetch_data.py and        *)
(* name_utils.py, and the dates and the row loop of fetch_data.py, are     *)
(* modelled in the later sections, each under a specification of its own.  *)
(*                                                                         *)
(* A text is a sequence of tokens: a whitespace character, a comma, or a   *)
(* maximal run of other characters (a word).  A name is the string that    *)
(* the concatenation of its tokens gives.  A Python dict is a record       *)
(* [keys, at]: the keys in insertion order and the mapping.  A Python set  *)
(* is a set; a loop over one takes its elements in an arbitrary order.     *)
(***************************************************************************)
EXTENDS Integers, Sequences, FiniteSets, TLC

VARIABLES
    phd_data,               \* the record list analyze_data is called with
    pc,                     \* position in the running function
    supervision_graph,      \* analyze_data: supervisor -> list of {name, year}
    supervisor_counts,      \* analyze_data: supervisor -> number of edges
    first_phds,             \* analyze_data: first 10 records by (year, name)
    top_supervisors,        \* analyze_data: top 10 (name, count)
    fsc,                    \* locals of the running find_supervisor_chains
    chains,                 \* list returned by find_supervisor_chains
    longest_chains,         \* analyze_data: first 5 of the sorted chains
    stack,                  \* call stack of the running recursive traversal
    todo,                   \* what the running for loop has still to visit
    descendants_of,         \* set returned by find_all_descendants, per call
    supervisor_descendants, \* analyze_data: supervisor -> len(descendants)
    top_descendants,        \* analyze_data: top 10 (name, descendants)
    family_trees,           \* analyze_data: trees of the top 5
    result,                 \* what analyze_data returns, or the error raised
    rows,                   \* fetch_phd_data: table rows still to process
    phd_list,               \* fetch_phd_data: the entries appended so far
    arg,                    \* argument of a call of a function of its own
    ret                     \* what that call returned

vars == << phd_data, pc, supervision_graph, supervisor_counts, first_phds,
           top_supervisors, fsc, chains, longest_chains, stack, todo,
           descendants_of, supervisor_descendants, top_descendants,
           family_trees, result, rows, phd_list, arg, ret >>

-----------------------------------------------------------------------------
(* Bounds and input sets *)

MaxRecords == 3

\* Python's None for a year; every year of a record is a positive integer.
None == -1

\* json null, for a value that has not been computed yet.
Null == [null |-> TRUE]

Whitespace == {" "}

EmptyDict == [keys |-> << >>, at |-> << >>]

-----------------------------------------------------------------------------
(* Sequences, dicts and sorting *)

Range(s) == { s[i] : i \in 1..Len(s) }

Min(a, b) == IF a <= b THEN a ELSE b

\* A slice that is one element too long.
Take_OneMore(s, n) == SubSeq(s, 1, Min(n + 1, Len(s)))

Take(s, n) == SubSeq(s, 1, Min(n, Len(s)))

DictHas(d, k) == k \in DOMAIN d.at

\* A list that keeps one copy of an element.
DictAppend_NoDuplicates(d, k, v) ==
    IF DictHas(d, k)
    THEN IF v \in Range(d.at[k]) THEN d ELSE [d EXCEPT !.at[k] = Append(@, v)]
    ELSE [keys |-> Append(d.keys, k), at |-> d.at @@ (k :> << v >>)]

\* d[k].append(v) on a defaultdict(list)
DictAppend(d, k, v) ==
    IF DictHas(d, k)
    THEN [d EXCEPT !.at[k] = Append(@, v)]
    ELSE [keys |-> Append(d.keys, k), at |-> d.at @@ (k :> << v >>)]

\* The count is set, not incremented.
DictIncr_Once(d, k) ==
    IF DictHas(d, k) THEN d
    ELSE [keys |-> Append(d.keys, k), at |-> d.at @@ (k :> 1)]

\* d[k] += 1 on a defaultdict(int)
DictIncr(d, k) ==
    IF DictHas(d, k)
    THEN [d EXCEPT !.at[k] = @ + 1]
    ELSE [keys |-> Append(d.keys, k), at |-> d.at @@ (k :> 1)]

\* The value of a key that is present is kept.
DictSet_KeepFirst(d, k, v) ==
    IF DictHas(d, k) THEN d
    ELSE [keys |-> Append(d.keys, k), at |-> d.at @@ (k :> v)]

\* d[k] = v on a dict
DictSet(d, k, v) ==
    IF DictHas(d, k)
    THEN [d EXCEPT !.at[k] = v]
    ELSE [keys |-> Append(d.keys, k), at |-> d.at @@ (k :> v)]

\* d.items(): the (key, value) pairs in insertion order
DictItems(d) == [ i \in 1..Len(d.keys) |-> << d.keys[i], d.at[d.keys[i]] >> ]

\* All orders in which a loop can take the elements of a set.
Orderings(S) ==
    { s \in [1..Cardinality(S) -> S] : \A i, j \in DOMAIN s : i # j => s[i] # s[j] }

\* An element is put before the elements with an equal key.
RECURSIVE InsertDesc_Unstable(_, _)
InsertDesc_Unstable(sorted, x) ==
    IF sorted = << >> THEN << x >>
    ELSE IF Head(sorted)[1] > x[1]
         THEN << Head(sorted) >> \o InsertDesc_Unstable(Tail(sorted), x)
         ELSE << x >> \o sorted

\* sorted(..., reverse=True) on a list of (key, element) pairs with integer
\* keys: stable, the elements with equal keys keep their order.
RECURSIVE InsertDesc(_, _)
InsertDesc(sorted, x) ==
    IF sorted = << >> THEN << x >>
    ELSE IF Head(sorted)[1] >= x[1]
         THEN << Head(sorted) >> \o InsertDesc(Tail(sorted), x)
         ELSE << x >> \o sorted

RECURSIVE SortPairsDesc(_)
SortPairsDesc(s) ==
    IF s = << >> THEN << >>
    ELSE InsertDesc(SortPairsDesc(SubSeq(s, 1, Len(s) - 1)), s[Len(s)])

\* sorted(s, key=lambda x: keys-of-x, reverse=True), keys[i] the key of s[i]
SortedDesc(s, keys) ==
    LET r == SortPairsDesc([ i \in 1..Len(s) |-> << keys[i], s[i] >> ])
    IN  [ i \in 1..Len(r) |-> r[i][2] ]

-----------------------------------------------------------------------------
(* parse_supervisors and normalize_name *)

\* Number of whitespace tokens of s from position i on.
RECURSIVE WsRun(_, _)
WsRun(s, i) ==
    IF i <= Len(s) /\ s[i] \in Whitespace THEN 1 + WsRun(s, i + 1) ELSE 0

\* The separators without the Danish word.
SepMatch_NoOg(s, i) ==
    IF s[i] = "," THEN 1 + WsRun(s, i + 1)
    ELSE LET k == WsRun(s, i)
             w == i + k
         IN  IF /\ k >= 1
                /\ w <= Len(s)
                /\ s[w] \in {"and", "&"}
                /\ WsRun(s, w + 1) >= 1
             THEN k + 1 + WsRun(s, w + 1)
             ELSE 0

\* Length of the match of  ,\s*|\s+and\s+|\s+&\s+|\s+og\s+  that starts at
\* position i of s; 0 when there is none.
SepMatch(s, i) ==
    IF s[i] = "," THEN 1 + WsRun(s, i + 1)
    ELSE LET k == WsRun(s, i)
             w == i + k
         IN  IF /\ k >= 1
                /\ w <= Len(s)
                /\ s[w] \in {"and", "&", "og"}
                /\ WsRun(s, w + 1) >= 1
             THEN k + 1 + WsRun(s, w + 1)
             ELSE 0

\* re.split: the pieces between the leftmost non-overlapping matches.
RECURSIVE ReSplit(_, _, _)
ReSplit(s, i, cur) ==
    IF i > Len(s) THEN << cur >>
    ELSE LET m == SepMatch(s, i)
         IN  IF m > 0 THEN << cur >> \o ReSplit(s, i + m, << >>)
             ELSE ReSplit(s, i + 1, Append(cur, s[i]))

\* str.strip()
RECURSIVE Strip(_)
Strip(p) ==
    IF p = << >> THEN p
    ELSE IF Head(p) \in Whitespace THEN Strip(Tail(p))
    ELSE IF p[Len(p)] \in Whitespace THEN Strip(SubSeq(p, 1, Len(p) - 1))
    ELSE p

\* The string a sequence of tokens spells.
RECURSIVE Join(_)
Join(p) == IF p = << >> THEN "" ELSE Head(p) \o Join(Tail(p))

RECURSIVE StripAll(_)
StripAll(pieces) ==
    IF pieces = << >> THEN << >>
    ELSE LET p == Strip(Head(pieces))
         IN  (IF p # << >> THEN << Join(p) >> ELSE << >>) \o StripAll(Tail(pieces))

parse_supervisors(supervisor_str) ==
    IF supervisor_str = << >> THEN << >>
    ELSE StripAll(ReSplit(supervisor_str, 1, << >>))

\* A table in which an alias leads to another alias.
name_map_AliasOfAlias ==
    [ k \in { "Clemens Klokmose", "Christian N. S. Pedersen",
              "Christian Nørgaard Storm Pedersen", "Christian Storm Pedersen",
              "Jesper Buus", "Ivan Damgaard", "Ivan Damgård", "Gerth S. Brodal",
              "Peter Mosses", "Michael Schwartzbach", "Marianne Graves",
              "Jakob Bardram" } |->
        CASE k = "Clemens Klokmose" -> "Clemens Nylandsted Klokmose"
          [] k \in { "Christian N. S. Pedersen",
                     "Christian Nørgaard Storm Pedersen" } -> "Christian N. Storm Pedersen"
          [] k = "Christian Storm Pedersen" -> "Christian N. S. Pedersen"
          [] k = "Jesper Buus" -> "Jesper Buus Nielsen"
          [] k \in { "Ivan Damgaard", "Ivan Damgård" } -> "Ivan Bjerre Damgård"
          [] k = "Gerth S. Brodal" -> "Gerth Stølting Brodal"
          [] k = "Peter Mosses" -> "Peter D. Mosses"
          [] k = "Michael Schwartzbach" -> "Michael I. Schwartzbach"
          [] k = "Marianne Graves" -> "Marianne Graves Petersen"
          [] k = "Jakob Bardram" -> "Jakob Eyvind Bardram" ]

\* generate_html.py, lines 20-33
name_map ==
    [ k \in { "Clemens Klokmose", "Christian N. S. Pedersen",
              "Christian Nørgaard Storm Pedersen", "Christian Storm Pedersen",
              "Jesper Buus", "Ivan Damgaard", "Ivan Damgård", "Gerth S. Brodal",
              "Peter Mosses", "Michael Schwartzbach", "Marianne Graves",
              "Jakob Bardram" } |->
        CASE k = "Clemens Klokmose" -> "Clemens Nylandsted Klokmose"
          [] k \in { "Christian N. S. Pedersen",
                     "Christian Nørgaard Storm Pedersen",
                     "Christian Storm Pedersen" } -> "Christian N. Storm Pedersen"
          [] k = "Jesper Buus" -> "Jesper Buus Nielsen"
          [] k \in { "Ivan Damgaard", "Ivan Damgård" } -> "Ivan Bjerre Damgård"
          [] k = "Gerth S. Brodal" -> "Gerth Stølting Brodal"
          [] k = "Peter Mosses" -> "Peter D. Mosses"
          [] k = "Michael Schwartzbach" -> "Michael I. Schwartzbach"
          [] k = "Marianne Graves" -> "Marianne Graves Petersen"
          [] k = "Jakob Bardram" -> "Jakob Eyvind Bardram" ]

normalize_name(name) ==
    IF name \in DOMAIN name_map THEN name_map[name] ELSE name

\* fetch_data.py, lines 64-77
fetch_data_name_map ==
    [ k \in { "Clemens Klokmose", "Christian N. S. Pedersen",
              "Christian Nørgaard Storm Pedersen", "Christian Storm Pedersen",
              "Jesper Buus", "Ivan Damgaard", "Ivan Damgård", "Gerth S. Brodal",
              "Peter Mosses", "Michael Schwartzbach", "Marianne Graves",
              "Jakob Bardram" } |->
        CASE k = "Clemens Klokmose" -> "Clemens Nylandsted Klokmose"
          [] k \in { "Christian N. S. Pedersen",
                     "Christian Nørgaard Storm Pedersen",
                     "Christian Storm Pedersen" } -> "Christian N. Storm Pedersen"
          [] k = "Jesper Buus" -> "Jesper Buus Nielsen"
          [] k \in { "Ivan Damgaard", "Ivan Damgård" } -> "Ivan Bjerre Damgård"
          [] k = "Gerth S. Brodal" -> "Gerth Stølting Brodal"
          [] k = "Peter Mosses" -> "Peter D. Mosses"
          [] k = "Michael Schwartzbach" -> "Michael I. Schwartzbach"
          [] k = "Marianne Graves" -> "Marianne Graves Petersen"
          [] k = "Jakob Bardram" -> "Jakob Eyvind Bardram" ]

fetch_data_normalize_name(name) ==
    IF name \in DOMAIN fetch_data_name_map THEN fetch_data_name_map[name] ELSE name

\* name_utils.py, lines 20-34
name_utils_name_map ==
    [ k \in { "Ole Lehrmann", "Clemens Klokmose", "Christian N. S. Pedersen",
              "Christian Nørgaard Storm Pedersen", "Christian Storm Pedersen",
              "Jesper Buus", "Ivan Damgaard", "Ivan Damgård", "Gerth S. Brodal",
              "Peter Mosses", "Michael Schwartzbach", "Marianne Graves",
              "Jakob Bardram" } |->
        CASE k = "Ole Lehrmann" -> "Ole Lehrmann Madsen"
          [] k = "Clemens Klokmose" -> "Clemens Nylandsted Klokmose"
          [] k \in { "Christian N. S. Pedersen",
                     "Christian Nørgaard Storm Pedersen",
                     "Christian Storm Pedersen" } -> "Christian N. Storm Pedersen"
          [] k = "Jesper Buus" -> "Jesper Buus Nielsen"
          [] k \in { "Ivan Damgaard", "Ivan Damgård" } -> "Ivan Bjerre Damgård"
          [] k = "Gerth S. Brodal" -> "Gerth Stølting Brodal"
          [] k = "Peter Mosses" -> "Peter D. Mosses"
          [] k = "Michael Schwartzbach" -> "Michael I. Schwartzbach"
          [] k = "Marianne Graves" -> "Marianne Graves Petersen"
          [] k = "Jakob Bardram" -> "Jakob Eyvind Bardram" ]

name_utils_normalize_name(name) ==
    IF name \in DOMAIN name_utils_name_map THEN name_utils_name_map[name] ELSE name

\* name_utils.py, lines 10-15
name_utils_parse_supervisors(supervisor_str) ==
    IF supervisor_str = << >> THEN << >>
    ELSE StripAll(ReSplit(supervisor_str, 1, << >>))

\* The supervisors as they are spelled in the text.
NormalizedSupervisors_AsSpelled(text) == parse_supervisors(text)

\* [normalize_name(s) for s in parse_supervisors(text)]
NormalizedSupervisors(text) ==
    LET p == parse_supervisors(text)
    IN  [ i \in 1..Len(p) |-> normalize_name(p[i]) ]

-----------------------------------------------------------------------------
(* The record lists the analysis is run on *)

Rec(n, s, y) == [name |-> n, supervisors |-> s, year |-> y]

\* The candidate names of the records, in the order Python compares strings.
NameOrder ==
    << "A", "B", "C", "Christian N. S. Pedersen", "Christian Storm Pedersen",
       "D", "E", "F", "G", "H", "I", "J", "K", "L", "M", "O", "Q", "X", "Y", "Z" >>

Records ==
    { Rec("X", << >>, 2000),
      Rec("Y", << "X" >>, 2005),
      Rec("Z", << "Y" >>, 2010),
      Rec("X", << "Z" >>, None),
      Rec("Z", << "X" >>, 2005),
      Rec("Christian Storm Pedersen", << "Z" >>, 2000),
      Rec("Christian N. S. Pedersen", << "Y", ",", " ", "Z" >>, None),
      Rec("X", << "Christian", " ", "N.", " ", "S.", " ", "Pedersen", " ", "and", " ",
                   "X", " ", "&", " ", "X" >>,
          None) }

\* The lists of at most MaxRecords records, no record twice.
RecordLists ==
    { data \in UNION { [1..n -> Records] : n \in 0..MaxRecords } :
         \A i, j \in DOMAIN data : i # j => data[i] # data[j] }

-----------------------------------------------------------------------------
(* Record lists longer than the cuts of the rankings *)

MaxBigRecords == 11

\* The candidates of a long list, in the order of their records.
BigNames == << "K", "B", "M", "D", "A", "L", "C", "J", "E", "I", "F", "H", "G" >>

\* The k-th record of a long list.  A plain record continues one line of
\* supervision: its candidate is supervised by the candidate before.  A
\* "root" record has the supervisor Q and no year; a "self" record names
\* its own candidate as a second supervisor and has a five-digit year.
BigRecord(k, kind) ==
    LET name == BigNames[k]
        prev == IF k = 1 THEN "O" ELSE BigNames[k - 1]
    IN  CASE kind = "root" -> Rec(name, << "Q" >>, None)
          [] kind = "self" -> Rec(name, << prev, ",", " ", name >>, 10000)
          [] OTHER -> Rec(name, << prev >>, 2000 + ((k * 3) % 4))

\* The long lists: every length up to MaxBigRecords, at most two records
\* that are not plain.
BigLists ==
    { [ k \in 1..n |-> BigRecord(k, IF k = i THEN ki ELSE IF k = j THEN kj ELSE "plain") ] :
        n \in 0..MaxBigRecords, i \in 0..MaxBigRecords, j \in 0..MaxBigRecords,
        ki \in {"root", "self"}, kj \in {"root", "self"} }

-----------------------------------------------------------------------------
(* analyze_data: the graph builder and the first two rankings *)

\* for supervisor in supervisors: supervision_graph[supervisor].append(...)
RECURSIVE AddEdges(_, _, _, _)
AddEdges(g, sups, student, year) ==
    IF sups = << >> THEN g
    ELSE AddEdges(DictAppend(g, Head(sups), [name |-> student, year |-> year]),
                  Tail(sups), student, year)

RECURSIVE CountEdges(_, _)
CountEdges(c, sups) ==
    IF sups = << >> THEN c ELSE CountEdges(DictIncr(c, Head(sups)), Tail(sups))

\* The supervision graph after the loop over the first n entries of data.
RECURSIVE BuildGraph(_, _)
BuildGraph(data, n) ==
    IF n = 0 THEN EmptyDict
    ELSE LET entry == data[n]
         IN  AddEdges(BuildGraph(data, n - 1),
                      NormalizedSupervisors(entry.supervisors),
                      normalize_name(entry.name), entry.year)

RECURSIVE BuildCounts(_, _)
BuildCounts(data, n) ==
    IF n = 0 THEN EmptyDict
    ELSE CountEdges(BuildCounts(data, n - 1),
                    NormalizedSupervisors(data[n].supervisors))

\* Python's truth value of a year: None and 0 are false.
Truthy(year) == year # None /\ year # 0

NameRank(name) == CHOOSE i \in 1..Len(NameOrder) : NameOrder[i] = name

\* (x['year'] if x['year'] else 9999, x['name']) < the same key of y
FirstKeyLess(x, y) ==
    LET kx == IF Truthy(x.year) THEN x.year ELSE 9999
        ky == IF Truthy(y.year) THEN y.year ELSE 9999
    IN  kx < ky \/ (kx = ky /\ NameRank(x.name) < NameRank(y.name))

\* sorted(s, key=...): ascending and stable.
RECURSIVE InsertAsc(_, _)
InsertAsc(sorted, x) ==
    IF sorted = << >> THEN << x >>
    ELSE IF FirstKeyLess(x, Head(sorted)) THEN << x >> \o sorted
    ELSE << Head(sorted) >> \o InsertAsc(Tail(sorted), x)

RECURSIVE SortedByYearName(_)
SortedByYearName(s) ==
    IF s = << >> THEN << >>
    ELSE InsertAsc(SortedByYearName(SubSeq(s, 1, Len(s) - 1)), s[Len(s)])

\* key=lambda x: x[1] on the items of a dict
ItemCounts(items) == [ i \in 1..Len(items) |-> items[i][2] ]

Init ==
    /\ phd_data \in RecordLists
    /\ pc = "build"
    /\ supervision_graph = EmptyDict
    /\ supervisor_counts = EmptyDict
    /\ first_phds = << >>
    /\ top_supervisors = << >>
    /\ fsc = Null
    /\ chains = << >>
    /\ longest_chains = << >>
    /\ stack = << >>
    /\ todo = << >>
    /\ descendants_of = EmptyDict
    /\ supervisor_descendants = EmptyDict
    /\ top_descendants = << >>
    /\ family_trees = << >>
    /\ result = Null
    /\ rows = << >>
    /\ phd_list = << >>
    /\ arg = Null
    /\ ret = Null

\* analyze_data, lines 158-177: the graph, first_phds and top_supervisors.
BuildAndRank ==
    /\ pc = "build"
    /\ supervision_graph' = BuildGraph(phd_data, Len(phd_data))
    /\ supervisor_counts' = BuildCounts(phd_data, Len(phd_data))
    /\ first_phds' = Take(SortedByYearName(phd_data), 10)
    /\ top_supervisors' = 
           Take(SortedDesc(DictItems(supervisor_counts'),
                           ItemCounts(DictItems(supervisor_counts'))), 10)
    /\ pc' = "chains"
    /\ UNCHANGED << rows, phd_list, arg, ret, phd_data, fsc, chains, longest_chains, stack, todo,
                    descendants_of, supervisor_descendants, top_descendants,
                    family_trees, result >>

-----------------------------------------------------------------------------
(* find_supervisor_chains *)

\* Lines 43-58 for the first n entries: the graph, has_supervisor and
\* student_info.  student_info keeps the last record of a candidate.
RECURSIVE FscBuild(_, _)
FscBuild(data, n) ==
    IF n = 0
    THEN [graph |-> EmptyDict, has_supervisor |-> {}, student_info |-> EmptyDict]
    ELSE LET b == FscBuild(data, n - 1)
             entry == data[n]
             student == normalize_name(entry.name)
             supervisors == NormalizedSupervisors(entry.supervisors)
         IN  [graph |-> AddEdges(b.graph, supervisors, student, entry.year),
              has_supervisor |->
                  IF supervisors # << >> THEN b.has_supervisor \cup {student}
                  ELSE b.has_supervisor,
              student_info |->
                  DictSet(b.student_info, student,
                          [year |-> entry.year, supervisors |-> supervisors])]

\* A call of dfs that forgets the persons earlier in the path.
DfsFrame_VisitedReset(person, path, years, visited) ==
    [person |-> person, path |-> path, years |-> years, visited |-> {person}, i |-> 1]

\* The frame of a call dfs(person, path, years, visited), at its first student.
DfsFrame(person, path, years, visited) ==
    [person |-> person, path |-> path, years |-> years, visited |-> visited, i |-> 1]

\* Only the roots are seeds.
SeedCalls_RootsOnly(roots_order, students_order, student_info) ==
    [ i \in 1..Len(roots_order) |-> << roots_order[i], None >> ]

\* The candidates who supervise are taken before the roots.
SeedCalls_StudentsFirst(roots_order, students_order, student_info) ==
    [ i \in 1..Len(students_order) |->
        << students_order[i], student_info.at[students_order[i]].year >> ] \o
    [ i \in 1..Len(roots_order) |-> << roots_order[i], None >> ]

\* Lines 88-94: the calls of dfs, (person, year) each: the roots with year
\* None first, then the candidates who supervise with the year of their record.
SeedCalls(roots_order, students_order, student_info) ==
    [ i \in 1..Len(roots_order) |-> << roots_order[i], None >> ] \o
    [ i \in 1..Len(students_order) |->
        << students_order[i], student_info.at[students_order[i]].year >> ]

\* No cycle guard: only the known-student filter.
DfsPruned_NoCycleGuard(student_name, visited, phd_students) ==
    student_name \notin phd_students

\* Line 68: the student is not followed.
DfsPruned(student_name, visited, phd_students) ==
    student_name \in visited \/ student_name \notin phd_students

\* No duplicate is removed.
UniqueChains_KeepAll(cs, seen) == cs

\* Lines 97-103: the first chain of every path, in order.
RECURSIVE UniqueChains(_, _)
UniqueChains(cs, seen) ==
    IF cs = << >> THEN << >>
    ELSE IF Head(cs).path \in seen THEN UniqueChains(Tail(cs), seen)
    ELSE << Head(cs) >> \o UniqueChains(Tail(cs), seen \cup {Head(cs).path})

\* key=lambda x: x['length']
ChainLengths(cs) == [ i \in 1..Len(cs) |-> cs[i].length ]

\* Line 180 calls find_supervisor_chains, which runs lines 38-62 and 85-86 and
\* starts the two loops over sets (lines 88 and 92), each in some order.
FscBegin ==
    /\ pc = "chains"
    /\ LET b == FscBuild(phd_data, Len(phd_data))
           phd_students == DOMAIN b.student_info.at
           all_supervisors == DOMAIN b.graph.at
           roots == all_supervisors \ b.has_supervisor
       IN  \E ro \in Orderings(roots) :
           \E so \in Orderings(phd_students \cap all_supervisors) :
              /\ fsc' = [supervision_graph |-> b.graph,
                         student_info |-> b.student_info,
                         phd_students |-> phd_students,
                         chains |-> << >>]
              /\ todo' = SeedCalls(ro, so, b.student_info)
    /\ stack' = << >>
    /\ pc' = "dfs"
    /\ UNCHANGED << rows, phd_list, arg, ret, phd_data, supervision_graph, supervisor_counts, first_phds,
                    top_supervisors, chains, longest_chains, descendants_of,
                    supervisor_descendants, top_descendants, family_trees,
                    result >>

\* Lines 89 and 94: the next seed's call of dfs.
DfsSeed ==
    /\ pc = "dfs"
    /\ stack = << >>
    /\ todo # << >>
    /\ stack' = << DfsFrame(Head(todo)[1], << Head(todo)[1] >>,
                            << Head(todo)[2] >>, {Head(todo)[1]}) >>
    /\ todo' = Tail(todo)
    /\ UNCHANGED << rows, phd_list, arg, ret, phd_data, pc, supervision_graph, supervisor_counts,
                    first_phds, top_supervisors, fsc, chains, longest_chains,
                    descendants_of, supervisor_descendants, top_descendants,
                    family_trees, result >>

\* The loop stops one student early.
DfsStudents_DropLast(f) ==
    IF DictHas(fsc.supervision_graph, f.person)
    THEN SubSeq(fsc.supervision_graph.at[f.person], 1,
                Len(fsc.supervision_graph.at[f.person]) - 1)
    ELSE << >>

\* The students the running call of dfs loops over (lines 65-66).
DfsStudents(f) ==
    IF DictHas(fsc.supervision_graph, f.person)
    THEN fsc.supervision_graph.at[f.person] ELSE << >>

\* Lines 66-69: the next student of the loop is skipped.
DfsSkip ==
    /\ pc = "dfs"
    /\ stack # << >>
    /\ LET d == Len(stack)
           f == stack[d]
       IN  /\ f.i <= Len(DfsStudents(f))
           /\ DfsPruned(DfsStudents(f)[f.i].name, f.visited, fsc.phd_students)
           /\ stack' = [stack EXCEPT ![d].i = @ + 1]
    /\ UNCHANGED << rows, phd_list, arg, ret, phd_data, pc, supervision_graph, supervisor_counts,
                    first_phds, top_supervisors, fsc, chains, longest_chains,
                    todo, descendants_of, supervisor_descendants,
                    top_descendants, family_trees, result >>

\* Lines 66-82: the path is extended by the next student, the chain is
\* recorded and dfs is called for the student.
DfsExtend ==
    /\ pc = "dfs"
    /\ stack # << >>
    /\ LET d == Len(stack)
           f == stack[d]
       IN  /\ f.i <= Len(DfsStudents(f))
           /\ LET student == DfsStudents(f)[f.i]
                  new_path == Append(f.path, student.name)
                  new_years == Append(f.years, student.year)
                  new_visited == f.visited \cup {student.name}
              IN  /\ ~DfsPruned(student.name, f.visited, fsc.phd_students)
                  /\ fsc' = IF Len(new_path) >= 2
                            THEN [fsc EXCEPT !.chains =
                                    Append(@, [path |-> new_path,
                                               years |-> new_years,
                                               length |-> Len(new_path)])]
                            ELSE fsc
                  /\ stack' = Append([stack EXCEPT ![d].i = @ + 1],
                                     DfsFrame(student.name, new_path, new_years,
                                              new_visited))
    /\ UNCHANGED << rows, phd_list, arg, ret, phd_data, pc, supervision_graph, supervisor_counts,
                    first_phds, top_supervisors, chains, longest_chains, todo,
                    descendants_of, supervisor_descendants, top_descendants,
                    family_trees, result >>

\* The loop of the running call of dfs is over: the call returns.
DfsReturn ==
    /\ pc = "dfs"
    /\ stack # << >>
    /\ stack[Len(stack)].i > Len(DfsStudents(stack[Len(stack)]))
    /\ stack' = SubSeq(stack, 1, Len(stack) - 1)
    /\ UNCHANGED << rows, phd_list, arg, ret, phd_data, pc, supervision_graph, supervisor_counts,
                    first_phds, top_supervisors, fsc, chains, longest_chains,
                    todo, descendants_of, supervisor_descendants,
                    top_descendants, family_trees, result >>

\* Lines 96-105 and 181: duplicates removed, sorted by length; analyze_data
\* sorts again and keeps the first 5.  The locals of find_supervisor_chains
\* are gone; line 185 starts the loop over the keys of the graph.
FscFinish ==
    /\ pc = "dfs"
    /\ stack = << >>
    /\ todo = << >>
    /\ LET unique_chains == UniqueChains(fsc.chains, {})
       IN  chains' = SortedDesc(unique_chains, ChainLengths(unique_chains))
    /\ longest_chains' = Take(SortedDesc(chains', ChainLengths(chains')), 5)
    /\ fsc' = Null
    /\ todo' = supervision_graph.keys
    /\ pc' = "descendants"
    /\ UNCHANGED << rows, phd_list, arg, ret, phd_data, supervision_graph, supervisor_counts, first_phds,
                    top_supervisors, stack, descendants_of,
                    supervisor_descendants, top_descendants, family_trees,
                    result >>

-----------------------------------------------------------------------------
(* find_all_descendants, called by analyze_data for every key of the graph *)

\* A person counted among the person's own descendants.
FadFrame_SelfIncluded(person, visited) ==
    [person |-> person, visited |-> visited \cup {person}, i |-> 1,
     descendants |-> {person}]

\* Lines 109-116 of a call that does not return at line 113: the frame of
\* the call, with person added to its own visited set.
FadFrame(person, visited) ==
    [person |-> person, visited |-> visited \cup {person}, i |-> 1,
     descendants |-> {}]

\* The students the running call loops over (lines 118-119).
FadStudents(f) ==
    IF DictHas(supervision_graph, f.person)
    THEN supervision_graph.at[f.person] ELSE << >>

\* Line 121: the student is followed.
FadFollowed(student_name, visited) == student_name \notin visited

\* Line 186: find_all_descendants(supervisor, supervision_graph), visited = set()
FadCall ==
    /\ pc = "descendants"
    /\ stack = << >>
    /\ todo # << >>
    /\ stack' = << FadFrame(Head(todo), {}) >>
    /\ UNCHANGED << rows, phd_list, arg, ret, phd_data, pc, supervision_graph, supervisor_counts,
                    first_phds, top_supervisors, fsc, chains, longest_chains,
                    todo, descendants_of, supervisor_descendants,
                    top_descendants, family_trees, result >>

\* Lines 119-121: the next student is already in visited.
FadSkip ==
    /\ pc = "descendants"
    /\ stack # << >>
    /\ LET d == Len(stack)
           f == stack[d]
       IN  /\ f.i <= Len(FadStudents(f))
           /\ ~FadFollowed(FadStudents(f)[f.i].name, f.visited)
           /\ stack' = [stack EXCEPT ![d].i = @ + 1]
    /\ UNCHANGED << rows, phd_list, arg, ret, phd_data, pc, supervision_graph, supervisor_counts,
                    first_phds, top_supervisors, fsc, chains, longest_chains,
                    todo, descendants_of, supervisor_descendants,
                    top_descendants, family_trees, result >>

\* Lines 119-123: the next student is added and find_all_descendants is called
\* for it with a copy of visited; the student is not in that copy, so the
\* call does not return at line 113.
FadExtend ==
    /\ pc = "descendants"
    /\ stack # << >>
    /\ LET d == Len(stack)
           f == stack[d]
       IN  /\ f.i <= Len(FadStudents(f))
           /\ LET student_name == FadStudents(f)[f.i].name
              IN  /\ FadFollowed(student_name, f.visited)
                  /\ stack' = Append([stack EXCEPT
                                         ![d].i = @ + 1,
                                         ![d].descendants = @ \cup {student_name}],
                                     FadFrame(student_name, f.visited))
    /\ UNCHANGED << rows, phd_list, arg, ret, phd_data, pc, supervision_graph, supervisor_counts,
                    first_phds, top_supervisors, fsc, chains, longest_chains,
                    todo, descendants_of, supervisor_descendants,
                    top_descendants, family_trees, result >>

\* Line 125 of a recursive call: the caller adds the returned set (line 123).
FadReturn ==
    /\ pc = "descendants"
    /\ Len(stack) > 1
    /\ LET d == Len(stack)
           f == stack[d]
       IN  /\ f.i > Len(FadStudents(f))
           /\ stack' = [SubSeq(stack, 1, d - 1) EXCEPT
                           ![d - 1].descendants = @ \cup f.descendants]
    /\ UNCHANGED << rows, phd_list, arg, ret, phd_data, pc, supervision_graph, supervisor_counts,
                    first_phds, top_supervisors, fsc, chains, longest_chains,
                    todo, descendants_of, supervisor_descendants,
                    top_descendants, family_trees, result >>

\* Line 125 of the call of line 186, and lines 187-188.
FadDone ==
    /\ pc = "descendants"
    /\ Len(stack) = 1
    /\ LET f == stack[1]
       IN  /\ f.i > Len(FadStudents(f))
           /\ descendants_of' = DictSet(descendants_of, f.person, f.descendants)
           /\ supervisor_descendants' =
                  IF Cardinality(f.descendants) > 0
                  THEN DictSet(supervisor_descendants, f.person,
                               Cardinality(f.descendants))
                  ELSE supervisor_descendants
    /\ stack' = << >>
    /\ todo' = Tail(todo)
    /\ UNCHANGED << rows, phd_list, arg, ret, phd_data, pc, supervision_graph, supervisor_counts,
                    first_phds, top_supervisors, fsc, chains, longest_chains,
                    top_descendants, family_trees, result >>

\* Lines 190 and 194: the ranking, and the loop over its first 5 entries.
RankDescendants ==
    /\ pc = "descendants"
    /\ stack = << >>
    /\ todo = << >>
    /\ top_descendants' =
           Take(SortedDesc(DictItems(supervisor_descendants),
                           ItemCounts(DictItems(supervisor_descendants))), 10)
    /\ todo' = Take(top_descendants', 5)
    /\ pc' = "trees"
    /\ UNCHANGED << rows, phd_list, arg, ret, phd_data, supervision_graph, supervisor_counts, first_phds,
                    top_supervisors, fsc, chains, longest_chains, stack,
                    descendants_of, supervisor_descendants, family_trees,
                    result >>

-----------------------------------------------------------------------------
(* build_family_tree, called by analyze_data for the top 5 of top_descendants *)

max_depth == 3

\* Line 131: build_tree_recursive(person, depth) does not return None.
TreeEntered(person, depth) ==
    ~(depth >= max_depth \/ ~DictHas(supervision_graph, person))

TreeFrame(person, depth) ==
    [person |-> person, depth |-> depth, i |-> 1, children |-> << >>]

\* Line 195: build_family_tree(supervisor, supervision_graph, max_depth=3);
\* a tree that is None is dropped at line 196.
TreeCall ==
    /\ pc = "trees"
    /\ stack = << >>
    /\ todo # << >>
    /\ IF TreeEntered(Head(todo)[1], 0)
       THEN /\ stack' = << TreeFrame(Head(todo)[1], 0) >>
            /\ todo' = todo
       ELSE /\ stack' = << >>
            /\ todo' = Tail(todo)
    /\ UNCHANGED << rows, phd_list, arg, ret, phd_data, pc, supervision_graph, supervisor_counts,
                    first_phds, top_supervisors, fsc, chains, longest_chains,
                    descendants_of, supervisor_descendants, top_descendants,
                    family_trees, result >>

\* Lines 135-145 for a student whose subtree is None: a node without children.
TreeLeaf ==
    /\ pc = "trees"
    /\ stack # << >>
    /\ LET d == Len(stack)
           f == stack[d]
           students == supervision_graph.at[f.person]
       IN  /\ f.i <= Len(students)
           /\ ~TreeEntered(normalize_name(students[f.i].name), f.depth + 1)
           /\ stack' = [stack EXCEPT
                           ![d].i = @ + 1,
                           ![d].children =
                               Append(@, [name |-> students[f.i].name,
                                          year |-> students[f.i].year,
                                          children |-> << >>])]
    /\ UNCHANGED << rows, phd_list, arg, ret, phd_data, pc, supervision_graph, supervisor_counts,
                    first_phds, top_supervisors, fsc, chains, longest_chains,
                    todo, descendants_of, supervisor_descendants,
                    top_descendants, family_trees, result >>

\* Line 139: the recursive call for a student who supervises; the caller's
\* loop resumes after this student.
TreeDescend ==
    /\ pc = "trees"
    /\ stack # << >>
    /\ LET d == Len(stack)
           f == stack[d]
           students == supervision_graph.at[f.person]
       IN  /\ f.i <= Len(students)
           /\ TreeEntered(normalize_name(students[f.i].name), f.depth + 1)
           /\ stack' = Append([stack EXCEPT ![d].i = @ + 1],
                              TreeFrame(normalize_name(students[f.i].name),
                                        f.depth + 1))
    /\ UNCHANGED << rows, phd_list, arg, ret, phd_data, pc, supervision_graph, supervisor_counts,
                    first_phds, top_supervisors, fsc, chains, longest_chains,
                    todo, descendants_of, supervisor_descendants,
                    top_descendants, family_trees, result >>

\* Lines 147-151 of a recursive call, and lines 140-145 of its caller.
TreeReturn ==
    /\ pc = "trees"
    /\ Len(stack) > 1
    /\ LET d == Len(stack)
           f == stack[d]
           caller == stack[d - 1]
           student == supervision_graph.at[caller.person][caller.i - 1]
       IN  /\ f.i > Len(supervision_graph.at[f.person])
           /\ stack' = [SubSeq(stack, 1, d - 1) EXCEPT
                           ![d - 1].children =
                               Append(@, [name |-> student.name,
                                          year |-> student.year,
                                          children |-> f.children])]
    /\ UNCHANGED << rows, phd_list, arg, ret, phd_data, pc, supervision_graph, supervisor_counts,
                    first_phds, top_supervisors, fsc, chains, longest_chains,
                    todo, descendants_of, supervisor_descendants,
                    top_descendants, family_trees, result >>

\* Lines 147-153 of the call of line 195, and lines 196-201.
TreeDone ==
    /\ pc = "trees"
    /\ Len(stack) = 1
    /\ LET f == stack[1]
           tree == [name |-> f.person, year |-> None, children |-> f.children]
       IN  /\ f.i > Len(supervision_graph.at[f.person])
           /\ family_trees' =
                  IF tree.children # << >>
                  THEN Append(family_trees,
                              [root |-> Head(todo)[1],
                               descendants |-> Head(todo)[2],
                               tree |-> tree])
                  ELSE family_trees
    /\ stack' = << >>
    /\ todo' = Tail(todo)
    /\ UNCHANGED << rows, phd_list, arg, ret, phd_data, pc, supervision_graph, supervisor_counts,
                    first_phds, top_supervisors, fsc, chains, longest_chains,
                    descendants_of, supervisor_descendants, top_descendants,
                    result >>

-----------------------------------------------------------------------------
(* analyze_data: the returned dict *)

\* [p['year'] for p in phd_data if p['year']]
RECURSIVE TruthyYears(_)
TruthyYears(data) ==
    IF data = << >> THEN << >>
    ELSE (IF Truthy(Head(data).year) THEN << Head(data).year >> ELSE << >>)
         \o TruthyYears(Tail(data))

SeqMin(s) == CHOOSE x \in Range(s) : \A y \in Range(s) : x <= y

SeqMax(s) == CHOOSE x \in Range(s) : \A y \in Range(s) : x >= y

\* Lines 203-214: the analysis result.
Return ==
    /\ pc = "trees"
    /\ stack = << >>
    /\ todo = << >>
    /\ TruthyYears(phd_data) # << >>
    /\ result' = [first_phds |-> first_phds,
                  top_supervisors |-> top_supervisors,
                  longest_chains |-> longest_chains,
                  top_descendants |-> top_descendants,
                  family_trees |-> family_trees,
                  stats |-> [total_phds |-> Len(phd_data),
                             total_supervisors |-> Len(supervisor_counts.keys),
                             year_span |-> << SeqMin(TruthyYears(phd_data)),
                                              SeqMax(TruthyYears(phd_data)) >>]]
    /\ pc' = "done"
    /\ UNCHANGED << rows, phd_list, arg, ret, phd_data, supervision_graph, supervisor_counts, first_phds,
                    top_supervisors, fsc, chains, longest_chains, stack, todo,
                    descendants_of, supervisor_descendants, top_descendants,
                    family_trees >>

\* Line 212: min() of an empty sequence raises ValueError.
RaiseValueError ==
    /\ pc = "trees"
    /\ stack = << >>
    /\ todo = << >>
    /\ TruthyYears(phd_data) = << >>
    /\ result' = [error |-> "ValueError"]
    /\ pc' = "error"
    /\ UNCHANGED << rows, phd_list, arg, ret, phd_data, supervision_graph, supervisor_counts, first_phds,
                    top_supervisors, fsc, chains, longest_chains, stack, todo,
                    descendants_of, supervisor_descendants, top_descendants,
                    family_trees >>

-----------------------------------------------------------------------------

Next ==
    \/ BuildAndRank
    \/ FscBegin \/ DfsSeed \/ DfsSkip \/ DfsExtend \/ DfsReturn \/ FscFinish
    \/ FadCall \/ FadSkip \/ FadExtend \/ FadReturn \/ FadDone
    \/ RankDescendants
    \/ TreeCall \/ TreeLeaf \/ TreeDescend \/ TreeReturn \/ TreeDone
    \/ Return \/ RaiseValueError

Spec == Init /\ [][Next]_vars

-----------------------------------------------------------------------------
(* find_supervisor_chains as a function of the record list and of the order *)
(* in which its two loops over sets take the seeds                          *)

\* dfs (lines 64-82) from the i-th student of person on: the chains appended,
\* in the order they are appended.
RECURSIVE DfsChains(_, _, _, _, _, _, _)
DfsChains(graph, phd_students, person, path, years, visited, i) ==
    IF ~DictHas(graph, person) \/ i > Len(graph.at[person]) THEN << >>
    ELSE LET student == graph.at[person][i]
             new_path == Append(path, student.name)
             new_years == Append(years, student.year)
             rest == DfsChains(graph, phd_students, person, path, years, visited, i + 1)
         IN  IF DfsPruned(student.name, visited, phd_students) THEN rest
             ELSE (IF Len(new_path) >= 2
                   THEN << [path |-> new_path, years |-> new_years,
                            length |-> Len(new_path)] >>
                   ELSE << >>)
                  \o DfsChains(graph, phd_students, student.name, new_path,
                               new_years, visited \cup {student.name}, 1)
                  \o rest

RECURSIVE SeedChains(_, _, _)
SeedChains(graph, phd_students, calls) ==
    IF calls = << >> THEN << >>
    ELSE DfsChains(graph, phd_students, Head(calls)[1], << Head(calls)[1] >>,
                   << Head(calls)[2] >>, {Head(calls)[1]}, 1)
         \o SeedChains(graph, phd_students, Tail(calls))

\* The sets the two loops of lines 88 and 92 run over.
FscRoots(data) ==
    LET b == FscBuild(data, Len(data))
    IN  DOMAIN b.graph.at \ b.has_supervisor

FscStudentSupervisors(data) ==
    LET b == FscBuild(data, Len(data))
    IN  DOMAIN b.student_info.at \cap DOMAIN b.graph.at

find_supervisor_chains(data, roots_order, students_order) ==
    LET b == FscBuild(data, Len(data))
        found == SeedChains(b.graph, DOMAIN b.student_info.at,
                            SeedCalls(roots_order, students_order, b.student_info))
        unique_chains == UniqueChains(found, {})
    IN  SortedDesc(unique_chains, ChainLengths(unique_chains))

-----------------------------------------------------------------------------
(* The supervision graph as a directed graph *)

Final == pc \in {"done", "error"}

Supervisors(g) == DOMAIN g.at

Students(g, p) == IF DictHas(g, p) THEN { e.name : e \in Range(g.at[p]) } ELSE {}

EdgeTargets(g) == UNION { Students(g, p) : p \in Supervisors(g) }

Nodes(g) == Supervisors(g) \cup EdgeTargets(g)

Successors(g, S) == UNION { Students(g, p) : p \in S }

RECURSIVE Closure(_, _)
Closure(g, S) ==
    LET T == S \cup Successors(g, S)
    IN  IF T = S THEN S ELSE Closure(g, T)

\* The persons reachable from p by one or more supervision edges.
ReachableFrom(g, p) == Closure(g, Students(g, p))

\* path is a simple directed path of g with at least 2 nodes.
IsSimplePath(g, path) ==
    /\ Len(path) >= 2
    /\ \A i, j \in 1..Len(path) : i # j => path[i] # path[j]
    /\ \A i \in 1..(Len(path) - 1) : path[i + 1] \in Students(g, path[i])

SimplePathsFrom(g, seeds) ==
    { path \in UNION { [1..n -> Nodes(g)] : n \in 2..Cardinality(Nodes(g)) } :
         path[1] \in seeds /\ IsSimplePath(g, path) }

\* The candidates of the records, and those with a recorded supervisor.
Candidates == { normalize_name(phd_data[i].name) : i \in 1..Len(phd_data) }

CandidatesWithSupervisor ==
    { normalize_name(phd_data[i].name) :
        i \in { j \in 1..Len(phd_data) :
                  parse_supervisors(phd_data[j].supervisors) # << >> } }

RootSupervisors == Supervisors(supervision_graph) \ CandidatesWithSupervisor

Seeds == RootSupervisors \cup (Candidates \cap Supervisors(supervision_graph))

ChainPaths == { chains[i].path : i \in 1..Len(chains) }

-----------------------------------------------------------------------------
(* Termination of the traversals *)

PhaseRankOf(phase) ==
    CASE phase = "build" -> 5
      [] phase = "chains" -> 4
      [] phase = "dfs" -> 3
      [] phase = "descendants" -> 2
      [] phase = "trees" -> 1
      [] OTHER -> 0

\* The longest adjacency list of the graph.
MaxStudents(g) ==
    LET lens == { Len(g.at[p]) : p \in Supervisors(g) }
    IN  IF lens = {} THEN 0 ELSE CHOOSE n \in lens : \A m \in lens : m <= n

\* The deepest a traversal can nest: a call of dfs or find_all_descendants
\* adds a person to visited, build_tree_recursive counts its depth.
MaxNesting(g, phase) ==
    IF phase = "trees" THEN max_depth ELSE Cardinality(Nodes(g))

Radix(g) == MaxStudents(g) + 2

\* The weight of a frame at nesting level k, nesting at most n, radix r.
LevelWeight(n, r, k) == IF k <= n THEN r ^ (n - k) ELSE 0

\* What the loop of frame f has still to do: its remaining students and its
\* return.
FrameRest(g, f) ==
    (IF DictHas(g, f.person) THEN Len(g.at[f.person]) ELSE 0) + 2 - f.i

RECURSIVE StackMeasure(_, _, _, _, _)
StackMeasure(g, n, r, stk, k) ==
    IF k = 0 THEN 0
    ELSE FrameRest(g, stk[k]) * LevelWeight(n, r, k)
         + StackMeasure(g, n, r, stk, k - 1)

\* The top-level calls still to start.
Pending(phase, stk, loop) ==
    IF phase \in {"descendants", "trees"} /\ stk # << >>
    THEN Len(loop) - 1 ELSE Len(loop)

Measure(g, phase, stk, loop) ==
    LET n == MaxNesting(g, phase)
        r == Radix(g)
    IN  Pending(phase, stk, loop) * r ^ n + StackMeasure(g, n, r, stk, Len(stk))

\* C1: every traversal of analyze_data terminates, cycles and self-loops
\* included: every step of the analysis moves to a later phase or, within the
\* phase, strictly decreases a measure that is a natural number.
C1_TraversalsTerminate ==
    [][ \/ PhaseRankOf(pc') < PhaseRankOf(pc)
        \/ /\ pc' = pc
           /\ Measure(supervision_graph', pc', stack', todo') >= 0
           /\ Measure(supervision_graph', pc', stack', todo')
                 < Measure(supervision_graph, pc, stack, todo) ]_vars

\* The analysis has run to its end on a graph with a self-loop and on one with
\* a longer cycle.
HasSelfLoop == \E p \in Supervisors(supervision_graph) : p \in Students(supervision_graph, p)

HasLongCycle ==
    \E p \in Supervisors(supervision_graph) :
       \E q \in Students(supervision_graph, p) \ {p} :
          p \in ReachableFrom(supervision_graph, q)

C1_Witness == Final /\ HasSelfLoop /\ HasLongCycle /\ family_trees # << >>

-----------------------------------------------------------------------------
(* The descendant counter *)

\* C2: the set find_all_descendants returns for a person p, called without a
\* visited argument, is the set of persons other than p that are reachable
\* from p by one or more supervision edges.
C2_DescendantsAreReachable ==
    Final =>
       /\ DOMAIN descendants_of.at = Supervisors(supervision_graph)
       /\ \A p \in DOMAIN descendants_of.at :
             descendants_of.at[p] = ReachableFrom(supervision_graph, p) \ {p}

\* The cases of C2: a cycle of three, an unbranched chain of four, a diamond.
CycleCase(p) ==
    \E q, r \in Nodes(supervision_graph) :
       /\ Cardinality({p, q, r}) = 3
       /\ Students(supervision_graph, p) = {q}
       /\ Students(supervision_graph, q) = {r}
       /\ p \in Students(supervision_graph, r)
       /\ descendants_of.at[p] = {q, r}

C2_Witness ==
    /\ Final
    /\ \E p \in DOMAIN descendants_of.at : CycleCase(p)

C2_WitnessChain ==
    /\ Final
    /\ phd_data = << Rec("Y", << "X" >>, 2005), Rec("Z", << "Y" >>, 2010),
                     Rec("Christian Storm Pedersen", << "Z" >>, 2000) >>
    /\ descendants_of.at["X"] = {"Y", "Z", "Christian N. Storm Pedersen"}

C2_WitnessDiamond ==
    /\ Final
    /\ phd_data = << Rec("Y", << "X" >>, 2005), Rec("Z", << "X" >>, 2005),
                     Rec("Christian N. S. Pedersen", << "Y", ",", " ", "Z" >>, None) >>
    /\ descendants_of.at["X"] = {"Y", "Z", "Christian N. Storm Pedersen"}

-----------------------------------------------------------------------------
(* The chain finder *)

\* C3: the paths find_supervisor_chains returns are exactly the simple
\* directed paths with at least 2 nodes that start at a seed (a root
\* supervisor, or a candidate who supervises), and every prefix with at least
\* 2 nodes of a returned path is returned too.
C3_ChainsAreSimplePathsFromSeeds ==
    Final =>
       /\ ChainPaths = SimplePathsFrom(supervision_graph, Seeds)
       /\ \A path \in ChainPaths :
             \A n \in 2..Len(path) : SubSeq(path, 1, n) \in ChainPaths

\* A path of four from a root, with its prefixes, and a path that starts at a
\* candidate who supervises.
C3_Witness ==
    /\ Final
    /\ \E path \in ChainPaths : Len(path) = 4 /\ path[1] \in RootSupervisors
    /\ \E path \in ChainPaths : path[1] \notin RootSupervisors

\* C4: every chain is a simple path of supervision edges: at least 2 persons,
\* no person twice, every consecutive pair an edge from supervisor to student.
\* It holds of a chain when dfs records it and of the list returned.
C4_ChainIsSimplePath ==
    /\ (pc = "dfs" /\ fsc.chains # << >>) =>
          IsSimplePath(fsc.supervision_graph, fsc.chains[Len(fsc.chains)].path)
    /\ Final => \A i \in 1..Len(chains) :
                   /\ IsSimplePath(supervision_graph, chains[i].path)
                   /\ chains[i].length = Len(chains[i].path)

\* Chains were returned for a graph with a cycle, where a path could run on.
C4_Witness == Final /\ HasLongCycle /\ HasSelfLoop /\ Len(chains) >= 3

\* C5: no two entries of the returned list have the same path.
C5_NoDuplicatePaths ==
    Final => \A i, j \in 1..Len(chains) :
                i # j => chains[i].path # chains[j].path

\* A seed that is a root and also a candidate has its paths found twice.
C5_Witness ==
    /\ Final
    /\ \E p \in RootSupervisors \cap Candidates :
          \E path \in ChainPaths : path[1] = p /\ Len(path) = 3

\* So has a supervisor->student edge that two records give.
C5_WitnessEdge ==
    /\ Final
    /\ chains # << >>
    /\ \E i, j \in 1..Len(phd_data) :
          /\ i # j
          /\ normalize_name(phd_data[i].name) = normalize_name(phd_data[j].name)
          /\ Range(NormalizedSupervisors(phd_data[i].supervisors))
                \cap Range(NormalizedSupervisors(phd_data[j].supervisors)) # {}

\* C6: for the records X (no supervisor, 2000), Y (supervised by X, 2005),
\* Z (supervised by Y, 2010) there is exactly one chain of length 3, it is
\* ranked first, its path is X, Y, Z and its years are null, 2005, 2010; the
\* descendants of X are Y and Z.
Scenario ==
    << Rec("X", << >>, 2000), Rec("Y", << "X" >>, 2005), Rec("Z", << "Y" >>, 2010) >>

C6_Scenario ==
    (Final /\ phd_data = Scenario) =>
       /\ Cardinality({ i \in 1..Len(chains) : chains[i].length = 3 }) = 1
       /\ chains[1] = [path |-> << "X", "Y", "Z" >>,
                       years |-> << None, 2005, 2010 >>,
                       length |-> 3]
       /\ longest_chains[1] = chains[1]
       /\ descendants_of.at["X"] = {"Y", "Z"}

C6_Witness == pc = "done" /\ phd_data = Scenario /\ Len(chains) = 3

\* C7: the chain list, and so longest_chains, is the same whatever order the
\* seed sets are iterated in.
C7_SeedOrderIrrelevant ==
    Final =>
       \A ro \in Orderings(FscRoots(phd_data)) :
          \A so \in Orderings(FscStudentSupervisors(phd_data)) :
             /\ chains = find_supervisor_chains(phd_data, ro, so)
             /\ longest_chains = Take(chains, 5)

-----------------------------------------------------------------------------
(* analyze_data *)

\* C8: analyze_data returns a result for every record list, without raising
\* an error, also when no record has a year and when the list is empty.
C8_NeverRaises == pc # "error"

\* C9: every name that is a key of the graph, an edge target, in a chain path
\* or in top_supervisors / top_descendants is canonical.
Canonical(n) == normalize_name(n) = n

C9_NamesAreCanonical ==
    Final =>
       /\ \A n \in Nodes(supervision_graph) : Canonical(n)
       /\ \A i \in 1..Len(chains) : \A k \in 1..Len(chains[i].path) :
             Canonical(chains[i].path[k])
       /\ \A i \in 1..Len(top_supervisors) : Canonical(top_supervisors[i][1])
       /\ \A i \in 1..Len(top_descendants) : Canonical(top_descendants[i][1])

\* One person is spelled with two aliases, as a candidate and inside a
\* supervisor text, and is one node with an edge in and an edge out.
C9_Witness ==
    /\ Final
    /\ \E i, j \in 1..Len(phd_data) :
          /\ phd_data[i].name = "Christian Storm Pedersen"
          /\ "Christian N. S. Pedersen" \in Range(parse_supervisors(phd_data[j].supervisors))
    /\ "Christian N. Storm Pedersen" \in Supervisors(supervision_graph)
    /\ "Christian N. Storm Pedersen" \in EdgeTargets(supervision_graph)
    /\ \E i \in 1..Len(chains) : \E k \in 2..(Len(chains[i].path) - 1) :
          chains[i].path[k] = "Christian N. Storm Pedersen"
    /\ \E i \in 1..Len(top_descendants) : top_descendants[i][1] = "Christian N. Storm Pedersen"

\* C10: the number of edges of the graph is the number of names that
\* parse_supervisors yields over all records, and supervisor_counts[s] is the
\* length of the adjacency list of s.
RECURSIVE SumOver(_, _)
SumOver(f, S) ==
    IF S = {} THEN 0
    ELSE LET x == CHOOSE y \in S : TRUE IN f[x] + SumOver(f, S \ {x})

EdgeCount ==
    SumOver([ p \in Supervisors(supervision_graph) |-> Len(supervision_graph.at[p]) ],
            Supervisors(supervision_graph))

ParsedNameCount ==
    SumOver([ i \in 1..Len(phd_data) |-> Len(parse_supervisors(phd_data[i].supervisors)) ],
            1..Len(phd_data))

C10_EdgeCount ==
    pc = "chains" =>
       /\ EdgeCount = ParsedNameCount
       /\ DOMAIN supervisor_counts.at = Supervisors(supervision_graph)
       /\ \A p \in Supervisors(supervision_graph) :
             supervisor_counts.at[p] = Len(supervision_graph.at[p])

\* A record names one supervisor twice and a record has an empty text.
C10_Witness ==
    /\ pc = "chains"
    /\ \E i \in 1..Len(phd_data) :
          LET names == parse_supervisors(phd_data[i].supervisors)
          IN  \E a, b \in 1..Len(names) : a # b /\ names[a] = names[b]
    /\ \E i \in 1..Len(phd_data) : phd_data[i].supervisors = << >>
    /\ EdgeCount >= 3

-----------------------------------------------------------------------------
(* The first two rankings on the long lists *)

\* analyze_data is entered with a long list.
InitRank ==
    /\ phd_data \in BigLists
    /\ pc = "build"
    /\ supervision_graph = EmptyDict
    /\ supervisor_counts = EmptyDict
    /\ first_phds = << >>
    /\ top_supervisors = << >>
    /\ fsc = Null
    /\ chains = << >>
    /\ longest_chains = << >>
    /\ stack = << >>
    /\ todo = << >>
    /\ descendants_of = EmptyDict
    /\ supervisor_descendants = EmptyDict
    /\ top_descendants = << >>
    /\ family_trees = << >>
    /\ result = Null
    /\ rows = << >>
    /\ phd_list = << >>
    /\ arg = Null
    /\ ret = Null

\* Lines 158-177 of analyze_data, up to the call of find_supervisor_chains.
NextRank == BuildAndRank

SpecRank == InitRank /\ [][NextRank]_vars

\* The supervisors the first n records name, normalized, in the order the
\* records name them.
RECURSIVE MentionSeq(_, _)
MentionSeq(data, n) ==
    IF n = 0 THEN << >>
    ELSE MentionSeq(data, n - 1) \o NormalizedSupervisors(data[n].supervisors)

MentionCount(m, s) == Cardinality({ i \in 1..Len(m) : m[i] = s })

FirstMention(m, s) == CHOOSE i \in 1..Len(m) : m[i] = s /\ \A j \in 1..(i - 1) : m[j] # s

\* s ranks ahead of t: more edges, or as many and named first.
RanksAhead(m, s, t) ==
    \/ MentionCount(m, s) > MentionCount(m, t)
    \/ /\ MentionCount(m, s) = MentionCount(m, t)
       /\ FirstMention(m, s) < FirstMention(m, t)

ListedSupervisors == { top_supervisors[i][1] : i \in 1..Len(top_supervisors) }

\* C11: top_supervisors holds min(10, number of supervisors) entries
\* (supervisor, number of edges), in non-increasing count order with equal
\* counts in the order of first appearance as a supervisor, and no omitted
\* supervisor ranks ahead of a listed one; the list is a function of the
\* record list.
C11_TopSupervisors ==
    pc = "chains" =>
       LET m == MentionSeq(phd_data, Len(phd_data))
       IN  /\ Len(top_supervisors) = Min(10, Cardinality(Range(m)))
           /\ \A i \in 1..Len(top_supervisors) :
                 /\ top_supervisors[i][1] \in Range(m)
                 /\ top_supervisors[i][2] = MentionCount(m, top_supervisors[i][1])
           /\ \A i, j \in 1..Len(top_supervisors) :
                 i < j => RanksAhead(m, top_supervisors[i][1], top_supervisors[j][1])
           /\ \A s \in Range(m) \ ListedSupervisors :
                 \A t \in ListedSupervisors : RanksAhead(m, t, s)

\* More than 10 supervisors, two listed ones with equal counts, and a
\* supervisor left out although it was named before a listed one.
C11_Witness ==
    /\ pc = "chains"
    /\ LET m == MentionSeq(phd_data, Len(phd_data))
       IN  /\ Cardinality(Range(m)) > 10
           /\ \E s \in Range(m) \ ListedSupervisors :
                 \E t \in ListedSupervisors : FirstMention(m, s) < FirstMention(m, t)
           /\ \E s, t \in ListedSupervisors :
                 s # t /\ MentionCount(m, s) = MentionCount(m, t)
           /\ \E s, t \in ListedSupervisors : MentionCount(m, s) > MentionCount(m, t)

\* x is placed before y: by year ascending, a record without a year after
\* every record with one, equal years (or both missing) by name ascending.
YearAscendingMissingLast(x, y) ==
    \/ x.year # None /\ y.year = None
    \/ x.year # None /\ y.year # None /\ x.year < y.year
    \/ /\ x.year = y.year
       /\ NameRank(x.name) < NameRank(y.name)

\* C13: first_phds is the first min(10, number of records) records of the
\* input by year ascending, records without a year after every record with
\* a year, equal years by name ascending.
C13_FirstPhds ==
    pc = "chains" =>
       /\ Len(first_phds) = Min(10, Len(phd_data))
       /\ \A i \in 1..Len(first_phds) : first_phds[i] \in Range(phd_data)
       /\ \A i, j \in 1..Len(first_phds) :
             i < j => YearAscendingMissingLast(first_phds[i], first_phds[j])
       /\ \A x \in Range(phd_data) \ Range(first_phds) :
             \A y \in Range(first_phds) : YearAscendingMissingLast(y, x)

-----------------------------------------------------------------------------
(* The order of the chain list *)

\* The position at which dfs first recorded a chain with this path.
FirstFound(found, path) ==
    CHOOSE i \in 1..Len(found) :
       found[i].path = path /\ \A j \in 1..(i - 1) : found[j].path # path

\* C12: when find_supervisor_chains returns, the list holds the first
\* recorded chain of every path, by non-increasing length with equal lengths
\* in the order of discovery, and longest_chains is its first min(5, number
\* of chains) entries.
C12_ChainOrder ==
    [][ (pc = "dfs" /\ pc' = "descendants") =>
           /\ { chains'[i].path : i \in 1..Len(chains') }
                 = { fsc.chains[i].path : i \in 1..Len(fsc.chains) }
           /\ \A i \in 1..Len(chains') :
                 chains'[i] = fsc.chains[FirstFound(fsc.chains, chains'[i].path)]
           /\ \A i, j \in 1..Len(chains') :
                 i < j =>
                    \/ chains'[i].length > chains'[j].length
                    \/ /\ chains'[i].length = chains'[j].length
                       /\ FirstFound(fsc.chains, chains'[i].path)
                             < FirstFound(fsc.chains, chains'[j].path)
           /\ longest_chains' = SubSeq(chains', 1, Min(5, Len(chains'))) ]_vars

\* More than 5 chains were returned, of different lengths and with equal
\* lengths among the first 5 and across the cut.
C12_Witness ==
    /\ Final
    /\ Len(chains) > 5
    /\ Len(longest_chains) = 5
    /\ \E i, j \in 1..5 : i # j /\ chains[i].length = chains[j].length
    /\ chains[1].length > chains[5].length
    /\ chains[5].length = chains[6].length

-----------------------------------------------------------------------------
(* The years of a chain *)

\* The records that give the edge from supervisor sup to candidate cand.
EdgeRecords(data, sup, cand) ==
    { i \in 1..Len(data) :
        /\ normalize_name(data[i].name) = cand
        /\ sup \in Range(NormalizedSupervisors(data[i].supervisors)) }

\* The records of candidate cand.
OwnRecords(data, cand) ==
    { i \in 1..Len(data) : normalize_name(data[i].name) = cand }

Least(S) == CHOOSE i \in S : \A j \in S : i <= j

Greatest(S) == CHOOSE i \in S : \A j \in S : j <= i

\* C16: in every returned chain years is parallel to path; from the second
\* person on, the year is that of the earliest record that gives the edge
\* from the person before; the first year is null when the first person has
\* no recorded supervisor, and otherwise the year of that person's own
\* record (the last one, when the person has several).
C16_ChainYears ==
    Final =>
       \A c \in 1..Len(chains) :
          LET path == chains[c].path
              years == chains[c].years
          IN  /\ Len(years) = Len(path)
              /\ chains[c].length = Len(path)
              /\ \A i \in 2..Len(path) :
                    /\ EdgeRecords(phd_data, path[i - 1], path[i]) # {}
                    /\ years[i] =
                          phd_data[Least(EdgeRecords(phd_data, path[i - 1], path[i]))].year
              /\ years[1] =
                    IF path[1] \in CandidatesWithSupervisor
                    THEN phd_data[Greatest(OwnRecords(phd_data, path[1]))].year
                    ELSE None

\* A chain with an edge that two records give with different years, and
\* whose first person has a supervisor and a year.
C16_Witness ==
    /\ Final
    /\ \E c \in 1..Len(chains) :
          /\ chains[c].years[1] # None
          /\ \E i \in 2..Len(chains[c].path) :
                \E a, b \in EdgeRecords(phd_data, chains[c].path[i - 1], chains[c].path[i]) :
                   phd_data[a].year # phd_data[b].year

\* A chain whose first person has a supervisor and several records with
\* different years.
C16_WitnessOwnRecords ==
    /\ Final
    /\ \E c \in 1..Len(chains) :
          /\ chains[c].path[1] \in CandidatesWithSupervisor
          /\ \E a, b \in OwnRecords(phd_data, chains[c].path[1]) :
                a < b /\ phd_data[a].year # phd_data[b].year /\ phd_data[b].supervisors = << >>

-----------------------------------------------------------------------------
(* normalize_name, as each module defines it *)

NameModules == {"generate_html", "fetch_data", "name_utils"}

\* normalize_name of the module.
NormalizeIn(module, name) ==
    CASE module = "generate_html" -> normalize_name(name)
      [] module = "fetch_data" -> fetch_data_normalize_name(name)
      [] module = "name_utils" -> name_utils_normalize_name(name)

\* The names normalize_name is called with: every alias and every canonical
\* name of the three tables, and names that are in no table.
NameSamples ==
    DOMAIN name_utils_name_map
       \cup { name_utils_name_map[k] : k \in DOMAIN name_utils_name_map }
       \cup DOMAIN name_map \cup { name_map[k] : k \in DOMAIN name_map }
       \cup DOMAIN fetch_data_name_map
       \cup { fetch_data_name_map[k] : k \in DOMAIN fetch_data_name_map }
       \cup { "", "X", "Ole", "Pedersen" }

\* A module's normalize_name is about to be called with a name.
InitNames ==
    /\ pc = "normalize_name"
    /\ arg \in [module : NameModules, name : NameSamples]
    /\ ret = Null
    /\ phd_data = << >>
    /\ supervision_graph = EmptyDict
    /\ supervisor_counts = EmptyDict
    /\ first_phds = << >>
    /\ top_supervisors = << >>
    /\ fsc = Null
    /\ chains = << >>
    /\ longest_chains = << >>
    /\ stack = << >>
    /\ todo = << >>
    /\ descendants_of = EmptyDict
    /\ supervisor_descendants = EmptyDict
    /\ top_descendants = << >>
    /\ family_trees = << >>
    /\ result = Null
    /\ rows = << >>
    /\ phd_list = << >>

\* The call returns.
NormalizeNameCall ==
    /\ pc = "normalize_name"
    /\ ret' = NormalizeIn(arg.module, arg.name)
    /\ pc' = "normalized"
    /\ UNCHANGED << arg, rows, phd_list, phd_data, supervision_graph,
                    supervisor_counts, first_phds, top_supervisors, fsc, chains,
                    longest_chains, stack, todo, descendants_of,
                    supervisor_descendants, top_descendants, family_trees,
                    result >>

NextNames == NormalizeNameCall

SpecNames == InitNames /\ [][NextNames]_vars

\* C14: normalize_name is idempotent in each module: normalizing the name it
\* returned returns that name.
C14_Idempotent ==
    pc = "normalized" => NormalizeIn(arg.module, ret) = ret

\* An alias was replaced by its canonical name, in each of the modules.
C14_Witness ==
    /\ pc = "normalized"
    /\ arg.name \in DOMAIN name_map
    /\ ret # arg.name
    /\ \A m \in NameModules : NormalizeIn(m, arg.name) # arg.name

\* C19: the three modules normalize every name to the same canonical name.
C19_OneMapping ==
    pc = "normalized" => \A m \in NameModules : NormalizeIn(m, arg.name) = ret

-----------------------------------------------------------------------------
(* parse_supervisors, as generate_html.py and name_utils.py define it *)

MaxTokens == 4

ParseModules == {"generate_html", "name_utils"}

SeparatorWords == {"and", "&", "og"}

Tokens == Whitespace \cup {","} \cup SeparatorWords \cup {"A", "B"}

\* The texts of the examples: "A, B and C", "A & B", "A og B".
ExampleTexts ==
    { << "A", ",", " ", "B", " ", "and", " ", "C" >>,
      << "A", " ", "&", " ", "B" >>,
      << "A", " ", "og", " ", "B" >> }

\* The texts of at most MaxTokens tokens in which no two words are adjacent
\* (a word is a maximal run), and the examples.
Texts ==
    { s \in UNION { [1..n -> Tokens] : n \in 0..MaxTokens } :
         \A i \in 1..(Len(s) - 1) :
            s[i] \in Whitespace \cup {","} \/ s[i + 1] \in Whitespace \cup {","} }
       \cup ExampleTexts

\* The arguments: a text, or None.
ParseArgs ==
    [module : ParseModules, is_none : {FALSE}, supervisor_str : Texts]
       \cup [module : ParseModules, is_none : {TRUE}, supervisor_str : {<< >>}]

\* A module's parse_supervisors is about to be called.
InitParse ==
    /\ pc = "parse_supervisors"
    /\ arg \in ParseArgs
    /\ ret = Null
    /\ phd_data = << >>
    /\ supervision_graph = EmptyDict
    /\ supervisor_counts = EmptyDict
    /\ first_phds = << >>
    /\ top_supervisors = << >>
    /\ fsc = Null
    /\ chains = << >>
    /\ longest_chains = << >>
    /\ stack = << >>
    /\ todo = << >>
    /\ descendants_of = EmptyDict
    /\ supervisor_descendants = EmptyDict
    /\ top_descendants = << >>
    /\ family_trees = << >>
    /\ result = Null
    /\ rows = << >>
    /\ phd_list = << >>

\* The call returns; None is falsy at the first line of the function.
ParseSupervisorsCall ==
    /\ pc = "parse_supervisors"
    /\ ret' = IF arg.is_none THEN << >>
              ELSE IF arg.module = "name_utils"
                   THEN name_utils_parse_supervisors(arg.supervisor_str)
                   ELSE parse_supervisors(arg.supervisor_str)
    /\ pc' = "parsed"
    /\ UNCHANGED << arg, rows, phd_list, phd_data, supervision_graph,
                    supervisor_counts, first_phds, top_supervisors, fsc, chains,
                    longest_chains, stack, todo, descendants_of,
                    supervisor_descendants, top_descendants, family_trees,
                    result >>

NextParse == ParseSupervisorsCall

SpecParse == InitParse /\ [][NextParse]_vars

\* The pieces of the split that are not empty after trimming, as tokens.
RECURSIVE TrimmedPieces(_)
TrimmedPieces(pieces) ==
    IF pieces = << >> THEN << >>
    ELSE (IF Strip(Head(pieces)) # << >> THEN << Strip(Head(pieces)) >> ELSE << >>)
            \o TrimmedPieces(Tail(pieces))

RECURSIVE Flatten(_)
Flatten(pieces) ==
    IF pieces = << >> THEN << >> ELSE Head(pieces) \o Flatten(Tail(pieces))

\* The tokens of s that are neither whitespace, a comma nor a separator word.
NameTokens(s) ==
    SelectSeq(s, LAMBDA t : t \notin Whitespace \cup {","} \cup SeparatorWords)

IsInfix(p, s) ==
    \E a \in 1..(Len(s) - Len(p) + 1) : SubSeq(s, a, a + Len(p) - 1) = p

\* C15: parse_supervisors returns the pieces between commas and
\* whitespace-surrounded 'and', '&', 'og', left to right, trimmed, none
\* empty; "A, B and C" gives [A, B, C], "A & B" and "A og B" give [A, B], an
\* empty or absent text gives [].
C15_ParseSupervisors ==
    pc = "parsed" =>
       LET text == arg.supervisor_str
           pieces == TrimmedPieces(ReSplit(text, 1, << >>))
       IN  /\ text = << >> => ret = << >>
           /\ text # << >> => ret = [ i \in 1..Len(pieces) |-> Join(pieces[i]) ]
           /\ text # << >> =>
                 /\ \A i \in 1..Len(pieces) :
                       /\ pieces[i] # << >>
                       /\ pieces[i][1] \notin Whitespace
                       /\ pieces[i][Len(pieces[i])] \notin Whitespace
                       /\ "," \notin Range(pieces[i])
                       /\ \A k \in 2..(Len(pieces[i]) - 1) :
                             ~ /\ pieces[i][k] \in SeparatorWords
                               /\ pieces[i][k - 1] \in Whitespace
                               /\ pieces[i][k + 1] \in Whitespace
                       /\ IsInfix(pieces[i], text)
                 /\ NameTokens(Flatten(pieces)) = NameTokens(text)
           /\ \A i \in 1..Len(ret) : ret[i] # ""
           /\ text = << "A", ",", " ", "B", " ", "and", " ", "C" >>
                 => ret = << "A", "B", "C" >>
           /\ text = << "A", " ", "&", " ", "B" >> => ret = << "A", "B" >>
           /\ text = << "A", " ", "og", " ", "B" >> => ret = << "A", "B" >>

\* The three examples and the absent text were parsed.
C15_Witness ==
    /\ pc = "parsed"
    /\ arg.supervisor_str = << "A", ",", " ", "B", " ", "and", " ", "C" >>
    /\ ret = << "A", "B", "C" >>

-----------------------------------------------------------------------------
(* The descendant ranking on the long lists *)

\* The elements of S in the order of the sequence keys.
KeyOrder(keys, S) == SelectSeq(keys, LAMBDA k : k \in S)

\* analyze_data has built the graph of a long list and find_supervisor_chains
\* has returned (line 180); the seed sets were iterated in the order in which
\* their persons first became supervisors.
InitDesc ==
    /\ phd_data \in BigLists
    /\ pc = "descendants"
    /\ supervision_graph = BuildGraph(phd_data, Len(phd_data))
    /\ supervisor_counts = BuildCounts(phd_data, Len(phd_data))
    /\ first_phds = Take(SortedByYearName(phd_data), 10)
    /\ top_supervisors =
           Take(SortedDesc(DictItems(supervisor_counts),
                           ItemCounts(DictItems(supervisor_counts))), 10)
    /\ fsc = Null
    /\ chains = find_supervisor_chains(
                    phd_data,
                    KeyOrder(supervision_graph.keys, FscRoots(phd_data)),
                    KeyOrder(supervision_graph.keys, FscStudentSupervisors(phd_data)))
    /\ longest_chains = Take(SortedDesc(chains, ChainLengths(chains)), 5)
    /\ stack = << >>
    /\ todo = supervision_graph.keys
    /\ descendants_of = EmptyDict
    /\ supervisor_descendants = EmptyDict
    /\ top_descendants = << >>
    /\ family_trees = << >>
    /\ result = Null
    /\ rows = << >>
    /\ phd_list = << >>
    /\ arg = Null
    /\ ret = Null

\* Lines 183-190 of analyze_data.
NextDesc ==
    \/ FadCall
    \/ FadSkip
    \/ FadExtend
    \/ FadReturn
    \/ FadDone
    \/ RankDescendants

SpecDesc == InitDesc /\ [][NextDesc]_vars

\* The number of persons other than p reachable from p.
DescendantCount(p) == Cardinality(ReachableFrom(supervision_graph, p) \ {p})

\* The supervisors with a descendant.
Eligible == { p \in Supervisors(supervision_graph) : DescendantCount(p) > 0 }

ListedDescendants == { top_descendants[i][1] : i \in 1..Len(top_descendants) }

\* C17: top_descendants lists min(10, number of supervisors with a
\* descendant) pairs (supervisor, number of descendants), each supervisor
\* once, in non-increasing order of the number; no supervisor that is left
\* out has more descendants than a listed one, and a supervisor without
\* descendants is never listed.
C17_TopDescendants ==
    pc = "trees" =>
       /\ Len(top_descendants) = Min(10, Cardinality(Eligible))
       /\ \A i \in 1..Len(top_descendants) :
             /\ top_descendants[i][1] \in Eligible
             /\ top_descendants[i][2] = DescendantCount(top_descendants[i][1])
       /\ \A i, j \in 1..Len(top_descendants) :
             i < j => /\ top_descendants[i][1] # top_descendants[j][1]
                      /\ top_descendants[i][2] >= top_descendants[j][2]
       /\ \A p \in Eligible \ ListedDescendants :
             \A q \in ListedDescendants : DescendantCount(p) <= DescendantCount(q)

\* More than 10 supervisors have descendants, one supervisor has none (it
\* supervises only itself), and the ranking is not the order of the graph.
C17_Witness ==
    /\ pc = "trees"
    /\ Cardinality(Eligible) > 10
    /\ \E p \in Supervisors(supervision_graph) :
          Students(supervision_graph, p) = {p} /\ p \notin ListedDescendants
    /\ top_descendants # Take(DictItems(supervisor_descendants), 10)
    /\ \E i \in 1..9 : top_descendants[i][2] = top_descendants[i + 1][2]

-----------------------------------------------------------------------------
(* The seeds cover the graph *)

\* C20: in find_supervisor_chains the roots and the candidates who supervise
\* are together all the supervisors, every edge target is a recorded
\* candidate (the known-student test of dfs never prunes), and the paths
\* returned are all the simple paths with at least 2 persons of the whole
\* graph.
C20_AllSimplePaths ==
    /\ pc = "dfs" =>
          /\ FscRoots(phd_data) \cup FscStudentSupervisors(phd_data)
                = Supervisors(fsc.supervision_graph)
          /\ { todo[i][1] : i \in 1..Len(todo) } \subseteq Supervisors(fsc.supervision_graph)
          /\ EdgeTargets(fsc.supervision_graph) \subseteq fsc.phd_students
    /\ Final =>
          ChainPaths = SimplePathsFrom(supervision_graph, Nodes(supervision_graph))

\* Chains were returned for a graph without a root: every person on the
\* cycle has a supervisor, and every chain starts at a candidate.
C20_Witness ==
    /\ Final
    /\ RootSupervisors = {}
    /\ Len(chains) >= 6

-----------------------------------------------------------------------------
(* fetch_data.py: the dates and the rows of the table *)

MaxRows == 1

\* A string of fetch_data is the sequence of its characters.
Digits == {"0", "1", "2", "3", "4", "5", "6", "7", "8", "9"}

DigitValue(c) == CHOOSE v \in 0..9 : << "0", "1", "2", "3", "4", "5", "6", "7", "8", "9" >>[v + 1] = c

DigitChar(v) == << "0", "1", "2", "3", "4", "5", "6", "7", "8", "9" >>[v + 1]

IsDigits(s) == \A i \in 1..Len(s) : s[i] \in Digits

\* int(s) of a string of digits
RECURSIVE ToInt(_)
ToInt(s) ==
    IF s = << >> THEN 0
    ELSE 10 * ToInt(SubSeq(s, 1, Len(s) - 1)) + DigitValue(s[Len(s)])

\* s.split('-')
RECURSIVE SplitDash(_, _, _)
SplitDash(s, i, cur) ==
    IF i > Len(s) THEN << cur >>
    ELSE IF s[i] = "-" THEN << cur >> \o SplitDash(s, i + 1, << >>)
    ELSE SplitDash(s, i + 1, Append(cur, s[i]))

\* The match of  (\d{2}-\d{2}-)(\d{n})$  at the start of s.
MatchesDayMonthYear(s, n) ==
    /\ Len(s) = 6 + n
    /\ \A i \in {1, 2, 4, 5} \cup (7..(6 + n)) : s[i] \in Digits
    /\ s[3] = "-"
    /\ s[6] = "-"

date_fixes ==
    { << << "1", "3", "-", "0", "3", "-", "2", "0", "0", "1", "5" >>,
         << "1", "3", "-", "0", "3", "-", "2", "0", "1", "5" >> >>,
      << << "0", "8", "-", "1", "2", "-", "2", "0", "0", "1", "7" >>,
         << "0", "8", "-", "1", "2", "-", "2", "0", "1", "7" >> >>,
      << << "1", "9", "-", "0", "5", "-", "2", "1", "5" >>,
         << "1", "9", "-", "0", "5", "-", "2", "0", "1", "5" >> >> }

fix_year(date_str) ==
    IF date_str = << >> THEN date_str
    ELSE IF \E f \in date_fixes : f[1] = date_str
         THEN (CHOOSE f \in date_fixes : f[1] = date_str)[2]
    ELSE IF /\ MatchesDayMonthYear(date_str, 3)
            /\ SubSeq(date_str, 7, 8) = << "2", "1" >>
         THEN SubSeq(date_str, 1, 6) \o << "2", "0" >> \o SubSeq(date_str, 8, 9)
    ELSE IF /\ MatchesDayMonthYear(date_str, 5)
            /\ SubSeq(date_str, 7, 9) = << "2", "0", "0" >>
         THEN SubSeq(date_str, 1, 6) \o << "2", "0" >> \o SubSeq(date_str, 10, 11)
    ELSE date_str

IsLeap(y) == (y % 4 = 0 /\ y % 100 # 0) \/ y % 400 = 0

DaysIn(m, y) ==
    IF m = 2 THEN (IF IsLeap(y) THEN 29 ELSE 28)
    ELSE IF m \in {4, 6, 9, 11} THEN 30 ELSE 31

\* datetime.strptime(s, "%d-%m-%Y") succeeds: one or two digits for the day
\* and the month, four for the year, and a date of the calendar.
StrptimeOk(s) ==
    LET parts == SplitDash(s, 1, << >>)
    IN  /\ Len(parts) = 3
        /\ \A i \in 1..3 : IsDigits(parts[i])
        /\ Len(parts[1]) \in {1, 2}
        /\ Len(parts[2]) \in {1, 2}
        /\ Len(parts[3]) = 4
        /\ ToInt(parts[3]) >= 1
        /\ ToInt(parts[2]) \in 1..12
        /\ ToInt(parts[1]) >= 1
        /\ ToInt(parts[1]) <= DaysIn(ToInt(parts[2]), ToInt(parts[3]))

Pad2(v) == << DigitChar(v \div 10), DigitChar(v % 10) >>

\* dt.strftime("%Y-%m-%d") of the date strptime read from s
IsoOf(s) ==
    LET parts == SplitDash(s, 1, << >>)
    IN  parts[3] \o << "-" >> \o Pad2(ToInt(parts[2])) \o << "-" >> \o Pad2(ToInt(parts[1]))

\* parse_date never returns the empty string: << >> stands for its None.
parse_date(date_str) ==
    IF date_str = << >> THEN << >>
    ELSE IF StrptimeOk(fix_year(date_str)) THEN IsoOf(fix_year(date_str))
    ELSE fix_year(date_str)

\* Lines 115-120: the year of a row from what parse_date returned.
YearOf(date_iso) ==
    IF date_iso = << >> THEN None
    ELSE LET first == SplitDash(date_iso, 1, << >>)[1]
         IN  IF first # << >> /\ IsDigits(first) THEN ToInt(first) ELSE None

\* A date string from its three parts.
Dashed(d, m, y) == d \o << "-" >> \o m \o << "-" >> \o y

DateSamples ==
    { Dashed(d, m, y) :
        d \in { << "1", "3" >>, << "3", "1" >>, << "0", "0" >>, << "5" >> },
        m \in { << "0", "3" >>, << "0", "2" >>, << "1", "3" >> },
        y \in { << "2", "0", "1", "5" >>, << "2", "1", "5" >>,
                << "2", "0", "0", "1", "5" >>, << "2", "0", "1", "1", "5" >>,
                << "1", "5" >> } }
       \cup { f[1] : f \in date_fixes }
       \cup { << >>,
              << "2", "0", "1", "5", "-", "0", "3", "-", "1", "3" >>,
              << "1", "3", "/", "0", "3", "/", "2", "0", "1", "5" >>,
              << "2", "0", "1", "5" >>,
              << "0", "3", "-", "2", "0", "1", "5" >>,
              << "n", ".", "d", "." >> }

\* A row of the table: its cells, or a row with fewer than 5 cells.
ShortRow == [cells |-> 3]

TableRows ==
    [cells : {5}, number : {<< "7" >>}, name : {"Jesper Buus", "X"},
     supervisors : {<< "Y" >>}, date_raw : DateSamples, title : {"T"}]
       \cup {ShortRow}

\* fetch_phd_data has found the table and its rows (line 98).
InitFetch ==
    /\ pc = "fetch"
    /\ rows \in UNION { [1..n -> TableRows] : n \in 0..MaxRows }
    /\ phd_list = << >>
    /\ arg = Null
    /\ ret = Null
    /\ phd_data = << >>
    /\ supervision_graph = EmptyDict
    /\ supervisor_counts = EmptyDict
    /\ first_phds = << >>
    /\ top_supervisors = << >>
    /\ fsc = Null
    /\ chains = << >>
    /\ longest_chains = << >>
    /\ stack = << >>
    /\ todo = << >>
    /\ descendants_of = EmptyDict
    /\ supervisor_descendants = EmptyDict
    /\ top_descendants = << >>
    /\ family_trees = << >>
    /\ result = Null

\* Lines 100-132 for a row with 5 cells.
ProcessRow ==
    /\ pc = "fetch"
    /\ rows # << >>
    /\ Head(rows).cells >= 5
    /\ LET row == Head(rows)
           date_iso == parse_date(row.date_raw)
       IN  phd_list' =
              Append(phd_list,
                     [number |-> IF row.number # << >> /\ IsDigits(row.number)
                                 THEN ToInt(row.number) ELSE row.number,
                      name |-> fetch_data_normalize_name(row.name),
                      supervisors |-> row.supervisors,
                      date_raw |-> row.date_raw,
                      date |-> date_iso,
                      year |-> YearOf(date_iso),
                      title |-> row.title])
    /\ rows' = Tail(rows)
    /\ UNCHANGED << pc, arg, ret, phd_data, supervision_graph, supervisor_counts,
                    first_phds, top_supervisors, fsc, chains, longest_chains,
                    stack, todo, descendants_of, supervisor_descendants,
                    top_descendants, family_trees, result >>

\* Line 102 for a row with fewer cells: nothing is appended.
SkipRow ==
    /\ pc = "fetch"
    /\ rows # << >>
    /\ Head(rows).cells < 5
    /\ rows' = Tail(rows)
    /\ UNCHANGED << pc, phd_list, arg, ret, phd_data, supervision_graph,
                    supervisor_counts, first_phds, top_supervisors, fsc, chains,
                    longest_chains, stack, todo, descendants_of,
                    supervisor_descendants, top_descendants, family_trees,
                    result >>

\* Line 138.
FetchReturn ==
    /\ pc = "fetch"
    /\ rows = << >>
    /\ ret' = phd_list
    /\ pc' = "fetched"
    /\ UNCHANGED << rows, phd_list, arg, phd_data, supervision_graph,
                    supervisor_counts, first_phds, top_supervisors, fsc, chains,
                    longest_chains, stack, todo, descendants_of,
                    supervisor_descendants, top_descendants, family_trees,
                    result >>

NextFetch ==
    \/ ProcessRow
    \/ SkipRow
    \/ FetchReturn

SpecFetch == InitFetch /\ [][NextFetch]_vars

\* C18: an entry's year is an integer only when it is the year of the date
\* that was parsed as DD-MM-YYYY after fix_year; when the date cannot be
\* parsed, or is empty, the year is None.
C18_YearOnlyFromParsedDate ==
    \A i \in 1..Len(phd_list) :
       LET e == phd_list[i]
       IN  IF e.date_raw # << >> /\ StrptimeOk(fix_year(e.date_raw))
           THEN e.year = ToInt(SplitDash(fix_year(e.date_raw), 1, << >>)[3])
           ELSE e.year = None

====
